---- MODULE Spec2Model ----
(***************************************************************************)
(* PicoTagEditor: a text input turned into a tag editor.  The repository   *)
(* holds two implementations of the constructor PicoTagEditor:             *)
(*   src/PicoTagEditor.js   (options merged in the settings literal, the   *)
(*                           source input cloned, addEvents guarded)       *)
(*   src/unnamed/part_000   (attributes copied one by one, addEvent        *)
(*                           unguarded, name + '[]' always)                *)
(* A page loads one of them (both define the global PicoTagEditor); the    *)
(* variable impl says which.  JavaScript strings are sequences of          *)
(* one-character strings, so that trim, includes, concatenation and the    *)
(* regular expression of isNumber are computed and not assumed.            *)
(***************************************************************************)
EXTENDS Integers, Sequences, FiniteSets, TLC

(* ---------------------------- bounds ----------------------------------- *)

\* most chips one tag-list region holds in the model
MaxChips == 2

(* ---------------------------- the page --------------------------------- *)

\* the source inputs of the page
Widgets == {"w1", "w2"}

\* focused / pointer when no widget has the focus / is under the pointer
NoWidget == "none"

New == "PicoTagEditor.js"

Old == "part_000"

Impls == {New, Old}

(* ---------------------------- strings ---------------------------------- *)

sEmpty == << >>

sTags == <<"t", "a", "g", "s">>

sBrackets == <<"[", "]">>

sTagsArr == <<"t", "a", "g", "s", "[", "]">>

sPx == <<"p", "x">>

sA == <<"a">>

sB == <<"b">>

sSpace == <<" ">>

sPadA == <<" ", "a", " ">>

s50pct == <<"5", "0", "%">>

s120 == <<"1", "2", "0">>

s1p5 == <<"1", ".", "5">>

sMinus5 == <<"-", "5">>

\* what the user may have in the text field when a key is pressed
TextValues == {sEmpty, sSpace, sA, sPadA, sB}

\* the name attribute of a source input
Names == {sTags, sTagsArr}

\* the keys of a keypress event
Keys == {"Enter", "a"}

\* direct calls widget.addTag(name, tagText) a page script makes
DirectCalls == {<<sTagsArr, sA>>, <<sTags, sEmpty>>}

\* the smaller inputs of the two-widget page
PairTextValues == {sEmpty, sA}

PairCalls == {<<sTags, sB>>}

(* String.prototype.trim: white space and line terminators are stripped    *)
(* from both ends.                                                         *)
IsSpace(c) == c \in {" ", "\t", "\n", "\r"}

RECURSIVE TrimStart(_)
TrimStart(s) ==
    IF s = << >> THEN s
    ELSE IF IsSpace(Head(s)) THEN TrimStart(Tail(s)) ELSE s

RECURSIVE TrimEnd(_)
TrimEnd(s) ==
    IF s = << >> THEN s
    ELSE IF IsSpace(s[Len(s)]) THEN TrimEnd(SubSeq(s, 1, Len(s) - 1)) ELSE s

trim(s) == TrimEnd(TrimStart(s))

\* String.prototype.includes for a one-character needle
includes(s, c) == \E i \in 1..Len(s) : s[i] = c

(* ---------------------------- dimensions ------------------------------- *)

\* a configuration value: undefined, a number, or a string
Undef == [k |-> "undefined", n |-> 0, s |-> << >>]

Num(n) == [k |-> "number", n |-> n, s |-> << >>]

Str(s) == [k |-> "string", n |-> 0, s |-> s]

DimNumbers == {0, 120}

DimStrings == {sEmpty, s50pct, s120, s1p5, sMinus5}

DimValues == {Undef} \cup {Num(n) : n \in DimNumbers} \cup {Str(s) : s \in DimStrings}

Digit(d) == <<"0", "1", "2", "3", "4", "5", "6", "7", "8", "9">>[d + 1]

\* Number.prototype.toString for a non-negative integer
RECURSIVE DecStr(_)
DecStr(n) == IF n < 10 THEN <<Digit(n)>> ELSE DecStr(n \div 10) \o <<Digit(n % 10)>>

\* the string a value converts to (template literal, += 'px', RegExp.test)
StringOf(v) ==
    CASE v.k = "number" -> DecStr(v.n)
      [] v.k = "string" -> v.s
      [] OTHER -> <<"u", "n", "d", "e", "f", "i", "n", "e", "d">>

IsDigit(c) == c \in {"0", "1", "2", "3", "4", "5", "6", "7", "8", "9"}

\* \d+
Digits(s) == Len(s) > 0 /\ \A i \in 1..Len(s) : IsDigit(s[i])

isNumber_NumbersOnly(value) == value.k = "number"

\* /^-?\d+(\.\d+)?$/.test(value)
isNumber(value) ==
    LET str == StringOf(value)
        body == IF Len(str) > 0 /\ Head(str) = "-" THEN Tail(str) ELSE str
    IN  \/ Digits(body)
        \/ \E p \in 1..Len(body) :
              /\ body[p] = "."
              /\ Digits(SubSeq(body, 1, p - 1))
              /\ Digits(SubSeq(body, p + 1, Len(body)))

\* JavaScript truthiness of a configuration value
Truthy(v) ==
    CASE v.k = "number" -> v.n # 0
      [] v.k = "string" -> v.s # << >>
      [] OTHER -> FALSE

\* the value assigned to tagsContainer.style.<dimension>; << >> is "not set"
StyleNew(v) ==
    IF Truthy(v)
    THEN IF isNumber(v) THEN StringOf(v) \o sPx ELSE StringOf(v)
    ELSE << >>

StyleOld(v) ==
    IF v.k # "undefined"
    THEN IF isNumber(v) THEN StringOf(v) \o sPx ELSE StringOf(v)
    ELSE << >>

StyleOf(im, v) == IF im = New THEN StyleNew(v) ELSE StyleOld(v)

(* ---------------------------- state ------------------------------------ *)

VARIABLES
    impl,         \* the implementation the page loaded: New or Old
    source,       \* per source input: its name attribute, and whether its class list has pico-tag-edit
    options,      \* per source input: the options the constructor is called with
    callback,     \* per source input: whether the constructor is called with a callback
    log,          \* per widget: the steps its constructor call has taken, in order
    pc,           \* per widget: "absent", "input" (not yet constructed), "ready", "failed" (constructor threw)
    settings,     \* this.settings                    (PicoTagEditor.js:25, part_000:21)
    name,         \* this.name                        (PicoTagEditor.js:44, part_000:36)
    mouseEnter,   \* this.mouseEnter                  (PicoTagEditor.js:50, part_000:41)
    thisRef,      \* the instance the listeners and addTag of a widget reach through _this
    listening,    \* whether the listeners of addEvents / addEvent are attached
    value,        \* the value of the widget's text field
    tags,         \* the children of .tags-container, in document order
    display,      \* tagsContainer.style.display      (PicoTagEditor.js:74,184,190)
    style,        \* tagsContainer.style.width / height / maxHeight
    dataFocus,    \* the wrapper's data-focus attribute; "unset" while the attribute is absent
    focused,      \* the widget whose text field is document.activeElement, or NoWidget
    pointer,      \* the widget whose wrapper the pointer is over, or NoWidget
    lastEvent     \* the event or call handled last, and whether its handler threw

vars == <<impl, source, options, callback, log, pc, settings, name, mouseEnter, thisRef, listening,
          value, tags, display, style, dataFocus, focused, pointer, lastEvent>>

Event(type, target, key, val, threw) ==
    [type |-> type, target |-> target, key |-> key, value |-> val, threw |-> threw]

DefaultSettings ==
    [debug |-> FALSE, width |-> Undef, height |-> Undef, maxHeight |-> Undef, trimInput |-> FALSE]

\* the options of the bootstrap loops: script.js for PicoTagEditor.js, the tail of part_000
BootDims(im) ==
    IF im = New
    THEN [width |-> Undef, height |-> Undef, maxHeight |-> Num(120)]
    ELSE [width |-> Num(240), height |-> Undef, maxHeight |-> Num(120)]

\* the bootstrap of script.js passes a callback, the one of part_000 does not
BootCallback(im) == im = New

Options(dbg, trm, dims) ==
    [debug |-> dbg, width |-> dims.width, height |-> dims.height,
     maxHeight |-> dims.maxHeight, trimInput |-> trm]

NoStyle == [width |-> << >>, height |-> << >>, maxHeight |-> << >>]

\* the fields of an instance as the constructor's first statements leave them
Fresh ==
    /\ settings = [w \in Widgets |-> DefaultSettings]
    /\ name = [w \in Widgets |-> << >>]
    /\ mouseEnter = [w \in Widgets |-> FALSE]
    /\ thisRef = [w \in Widgets |-> w]
    /\ listening = [w \in Widgets |-> FALSE]
    /\ value = [w \in Widgets |-> << >>]
    /\ tags = [w \in Widgets |-> << >>]
    /\ display = [w \in Widgets |-> ""]
    /\ style = [w \in Widgets |-> NoStyle]
    /\ dataFocus = [w \in Widgets |-> "unset"]
    /\ focused = NoWidget
    /\ pointer = NoWidget
    /\ lastEvent = Event("load", NoWidget, "", << >>, FALSE)
    /\ log = [w \in Widgets |-> << >>]

\* one source input on the page, constructed with the bootstrap's dimensions
Init ==
    /\ impl \in Impls
    /\ Fresh
    /\ pc = [w \in Widgets |-> IF w = "w1" THEN "input" ELSE "absent"]
    /\ callback = [w \in Widgets |-> BootCallback(impl)]
    /\ \E nm \in Names, cls \in BOOLEAN, dbg \in BOOLEAN, trm \in BOOLEAN :
          /\ source = [w \in Widgets |-> [name |-> nm, hasClass |-> cls]]
          /\ options = [w \in Widgets |-> Options(dbg, trm, BootDims(impl))]

(* ---------------------------- construction ----------------------------- *)

\* settings: the defaults overridden by the options given (object spread, both files)
Merge(opts) == [f \in DOMAIN DefaultSettings |-> opts[f]]

\* this.name after init: part_000 stores the name attribute, PicoTagEditor.js never assigns it
StoredName(im, src) == IF im = New THEN << >> ELSE src.name

\* init: the three dimension styles of the tag-list region
init(im, st) ==
    [width |-> StyleOf(im, st.width), height |-> StyleOf(im, st.height),
     maxHeight |-> StyleOf(im, st.maxHeight)]

\* containerElement.querySelector('.pico-tag-edit'): the text field keeps the source's class
QueryEdit(w) == source[w].hasClass

BindThisShared(ref, w) == [v \in Widgets |-> w]

\* let _this = this: a binding of the constructor call, one per instance
BindThis(ref, w) == [ref EXCEPT ![w] = w]

\* one step of a constructor call, and the element it is given
StepOf(step, arg) == [step |-> step, arg |-> arg]

(* The statements of the constructor in the order they run.  init copies the  *)
(* attributes (PicoTagEditor.js clones the input, part_000 sets them one by   *)
(* one) and then replaces the input by the wrapper; PicoTagEditor.js then     *)
(* calls the callback, when there is one, with this.inputElement, the text    *)
(* field inside the wrapper; addEvents / addEvent comes last.  part_000 has   *)
(* no callback parameter: a third argument is ignored.                        *)
ConstructorSteps(im, cb) ==
    <<StepOf("copy", "input"), StepOf("replace", "input")>>
    \o (IF im = New /\ cb THEN <<StepOf("callback", "newInput")>> ELSE << >>)
    \o <<StepOf("addEvents", "container")>>

(* new PicoTagEditor(input, options[, callback]): the fields, init, addEvents.  *)
(* addEvents returns before attaching anything when the text field is not    *)
(* found; addEvent of part_000 calls addEventListener on null and throws,    *)
(* after init has replaced the input.  The callback of PicoTagEditor.js is   *)
(* handed the text field between init and addEvents; the one of script.js    *)
(* adds a click listener that logs, which changes none of the state here.    *)
Construct(w) ==
    /\ pc[w] = "input"
    /\ settings' = [settings EXCEPT ![w] = Merge(options[w])]
    /\ name' = [name EXCEPT ![w] = StoredName(impl, source[w])]
    /\ mouseEnter' = [mouseEnter EXCEPT ![w] = FALSE]
    /\ thisRef' = BindThis(thisRef, w)
    /\ style' = [style EXCEPT ![w] = init(impl, Merge(options[w]))]
    /\ display' = [display EXCEPT ![w] = "none"]
    /\ listening' = [listening EXCEPT ![w] = QueryEdit(w)]
    /\ pc' = [pc EXCEPT ![w] = IF impl = Old /\ ~QueryEdit(w) THEN "failed" ELSE "ready"]
    /\ lastEvent' = Event("construct", w, "", << >>, impl = Old /\ ~QueryEdit(w))
    /\ log' = [log EXCEPT ![w] = ConstructorSteps(impl, callback[w])]
    /\ UNCHANGED <<impl, source, options, callback, value, tags, dataFocus, focused, pointer>>

(* ---------------------------- focus ------------------------------------ *)

BlurValue_DebugOnly(dbg, over) == IF dbg THEN "true" ELSE "false"

BlurValue_HoverOnly(dbg, over) == IF over THEN "true" ELSE "false"

\* _this.settings.debug || _this.mouseEnter ? 'true' : 'false'
BlurValue(dbg, over) == IF dbg \/ over THEN "true" ELSE "false"

\* the focus listener of the text field of w
OnFocus(df, w) ==
    IF listening[w] THEN [df EXCEPT ![thisRef[w]] = "true"] ELSE df

\* the blur listener of the text field of w
OnBlur(df, w) ==
    IF listening[w]
    THEN [df EXCEPT ![thisRef[w]] =
              BlurValue(settings[thisRef[w]].debug, mouseEnter[thisRef[w]])]
    ELSE df

\* the browser moves focus: blur on the field that had it, then focus on the new one
MoveFocus(df, from, to) ==
    IF from = to THEN df
    ELSE LET afterBlur == IF from # NoWidget THEN OnBlur(df, from) ELSE df
         IN  IF to # NoWidget THEN OnFocus(afterBlur, to) ELSE afterBlur

HasField(w) == pc[w] \in {"ready", "failed"}

\* the user focuses the text field of w
Focus(w) ==
    /\ HasField(w)
    /\ focused # w
    /\ dataFocus' = MoveFocus(dataFocus, focused, w)
    /\ focused' = w
    /\ lastEvent' = Event("focus", w, "", << >>, FALSE)
    /\ UNCHANGED <<impl, source, options, callback, log, pc, settings, name, mouseEnter, thisRef,
                   listening, value, tags, display, style, pointer>>

\* the text field of w loses focus to something outside the widgets
Blur(w) ==
    /\ HasField(w)
    /\ focused = w
    /\ dataFocus' = MoveFocus(dataFocus, w, NoWidget)
    /\ focused' = NoWidget
    /\ lastEvent' = Event("blur", w, "", << >>, FALSE)
    /\ UNCHANGED <<impl, source, options, callback, log, pc, settings, name, mouseEnter, thisRef,
                   listening, value, tags, display, style, pointer>>

\* the mouseenter listener of the wrapper of w
MouseEnter(w) ==
    /\ HasField(w)
    /\ pointer = NoWidget
    /\ pointer' = w
    /\ mouseEnter' = IF listening[w] THEN [mouseEnter EXCEPT ![thisRef[w]] = TRUE]
                     ELSE mouseEnter
    /\ lastEvent' = Event("mouseenter", w, "", << >>, FALSE)
    /\ UNCHANGED <<impl, source, options, callback, log, pc, settings, name, thisRef, listening,
                   value, tags, display, style, dataFocus, focused>>

\* the mouseleave listener of the wrapper of w
MouseLeave(w) ==
    /\ HasField(w)
    /\ pointer = w
    /\ pointer' = NoWidget
    /\ mouseEnter' = IF listening[w] THEN [mouseEnter EXCEPT ![thisRef[w]] = FALSE]
                     ELSE mouseEnter
    /\ lastEvent' = Event("mouseleave", w, "", << >>, FALSE)
    /\ UNCHANGED <<impl, source, options, callback, log, pc, settings, name, thisRef, listening,
                   value, tags, display, style, dataFocus, focused>>

(* ---------------------------- tags ------------------------------------- *)

\* the name of a chip's hidden input: PicoTagEditor.js appends '[]' unless the
\* name includes '[', part_000 appends it always
HiddenName(im, nm) ==
    IF im = New
    THEN IF ~includes(nm, "[") THEN nm \o sBrackets ELSE nm
    ELSE nm \o sBrackets

\* a child element of a chip
Element(tag, type, nm, val) == [tag |-> tag, type |-> type, name |-> nm, value |-> val]

Tag_HiddenTrimmed(im, nm, tagText) ==
    [textContent |-> tagText,
     children |-> <<Element("input", "hidden", HiddenName(im, nm), trim(tagText)),
                    Element("span", "", << >>, << >>)>>]

\* a chip: div.pico-tag with the text it was given and its two children, the
\* hidden input and the remove control
Tag(im, nm, tagText) ==
    [textContent |-> tagText,
     children |-> <<Element("input", "hidden", HiddenName(im, nm), tagText),
                    Element("span", "", << >>, << >>)>>]

CommitGuard_NoTrim(key, val) == key = "Enter" /\ val # << >>

\* event.key === 'Enter' && event.target.value.trim() !== ''
CommitGuard(key, val) == key = "Enter" /\ trim(val) # << >>

\* the text handed to addTag: PicoTagEditor.js trims it when settings.trimInput
\* is set, part_000 passes event.target.value as it is
CommitText(im, trimInput, val) == IF im = New /\ trimInput THEN trim(val) ELSE val

appendChild_First(seq, tag) == <<tag>> \o seq

\* tagContainer.appendChild(tag)
appendChild(seq, tag) == Append(seq, tag)

\* tagContainer.removeChild(tag), tag being the i-th child
removeChild(seq, i) == SubSeq(seq, 1, i - 1) \o SubSeq(seq, i + 1, Len(seq))

\* the element the remove handler focuses: '.pico-tag-edit' in PicoTagEditor.js,
\* 'input[type="text"]' in part_000 (init always creates one)
QueryFocusTarget(im, w) == IF im = New THEN QueryEdit(w) ELSE TRUE

\* if (!tagContainer.querySelector('.pico-tag')) tagContainer.style.display = 'none'
Hide(disp, seq) == IF seq = << >> THEN "none" ELSE disp

Cleared_Kept(val) == val

\* event.target.value = ''
Cleared(val) == << >>

\* the user edits the text of the focused field
Input(w, val) ==
    /\ HasField(w)
    /\ focused = w
    /\ value[w] # val
    /\ value' = [value EXCEPT ![w] = val]
    /\ lastEvent' = Event("input", w, "", val, FALSE)
    /\ UNCHANGED <<impl, source, options, callback, log, pc, settings, name, mouseEnter, thisRef,
                   listening, tags, display, style, dataFocus, focused, pointer>>

\* the keypress listener of the text field of w; addTag runs inside it
KeyPress(w, key) ==
    /\ listening[w]
    /\ focused = w
    /\ lastEvent' = Event("keypress", w, key, value[w], FALSE)
    /\ IF CommitGuard(key, value[w])
       THEN LET t == thisRef[w]
                tag == Tag(impl, name[t], CommitText(impl, settings[t].trimInput, value[w]))
            IN  /\ Len(tags[t]) < MaxChips
                /\ tags' = [tags EXCEPT ![t] = appendChild(@, tag)]
                /\ display' = [display EXCEPT ![t] = ""]
                /\ value' = [value EXCEPT ![w] = Cleared(@)]
       ELSE UNCHANGED <<tags, display, value>>
    /\ UNCHANGED <<impl, source, options, callback, log, pc, settings, name, mouseEnter, thisRef,
                   listening, style, dataFocus, focused, pointer>>

\* a page script calls addTag(name, tagText) on the instance of w
AddTag(w, call) ==
    /\ pc[w] = "ready"
    /\ Len(tags[w]) < MaxChips
    /\ tags' = [tags EXCEPT ![w] = appendChild(@, Tag(impl, call[1], call[2]))]
    /\ display' = [display EXCEPT ![w] = ""]
    /\ lastEvent' = Event("addTag", w, "", call[2], FALSE)
    /\ UNCHANGED <<impl, source, options, callback, log, pc, settings, name, mouseEnter, thisRef,
                   listening, value, style, dataFocus, focused, pointer>>

(* The click listener of the remove control of the i-th chip of w: the chip  *)
(* is removed, the text field found through _this is focused (focus() runs   *)
(* the blur and focus listeners before it returns), and the region is hidden *)
(* when no chip is left.  When the query finds no element, focus() is called *)
(* on null: the TypeError ends the handler after removeChild.                *)
Remove(w, i) ==
    /\ i \in 1..Len(tags[w])
    /\ LET t == thisRef[w]
           rest == removeChild(tags[w], i)
       IN  /\ tags' = [tags EXCEPT ![w] = rest]
           /\ IF QueryFocusTarget(impl, t)
              THEN /\ dataFocus' = MoveFocus(dataFocus, focused, t)
                   /\ focused' = t
                   /\ display' = [display EXCEPT ![w] = Hide(@, rest)]
                   /\ lastEvent' = Event("click", w, "", << >>, FALSE)
              ELSE /\ UNCHANGED <<dataFocus, focused, display>>
                   /\ lastEvent' = Event("click", w, "", << >>, TRUE)
    /\ UNCHANGED <<impl, source, options, callback, log, pc, settings, name, mouseEnter, thisRef,
                   listening, value, style, pointer>>

(* ---------------------------- specifications --------------------------- *)

Step(w, texts, calls) ==
    \/ Construct(w)
    \/ Focus(w)
    \/ Blur(w)
    \/ MouseEnter(w)
    \/ MouseLeave(w)
    \/ \E val \in texts : Input(w, val)
    \/ \E key \in Keys : KeyPress(w, key)
    \/ \E call \in calls : AddTag(w, call)
    \/ \E i \in 1..MaxChips : Remove(w, i)

Next == \E w \in Widgets : Step(w, TextValues, DirectCalls)

Spec == Init /\ [][Next]_vars

\* two source inputs on the page, constructed by the bootstrap loop with the same options
InitPair ==
    /\ impl \in Impls
    /\ Fresh
    /\ pc = [w \in Widgets |-> "input"]
    /\ callback = [w \in Widgets |-> BootCallback(impl)]
    /\ source = [w \in Widgets |->
                    [name |-> IF w = "w1" THEN sTags ELSE sTagsArr, hasClass |-> TRUE]]
    /\ \E dbg \in BOOLEAN :
          options = [w \in Widgets |-> Options(dbg, FALSE, BootDims(impl))]

NextPair == \E w \in Widgets : Step(w, PairTextValues, PairCalls)

SpecPair == InitPair /\ [][NextPair]_vars

\* one source input, with or without the class, constructed with any
\* combination of dimension options, with or without a callback
InitDim ==
    /\ impl \in Impls
    /\ Fresh
    /\ pc = [w \in Widgets |-> IF w = "w1" THEN "input" ELSE "absent"]
    /\ \E cls \in BOOLEAN : source = [w \in Widgets |-> [name |-> sTags, hasClass |-> cls]]
    /\ \E cb \in BOOLEAN : callback = [w \in Widgets |-> cb]
    /\ \E wd \in DimValues, ht \in DimValues, mh \in DimValues :
          options = [w \in Widgets |->
                        Options(FALSE, FALSE, [width |-> wd, height |-> ht, maxHeight |-> mh])]

NextDim == \E w \in Widgets : Construct(w)

SpecDim == InitDim /\ [][NextDim]_vars

(* ---------------------------- properties ------------------------------- *)

Last(seq) == seq[Len(seq)]

IsHiddenInput(el) == el.tag = "input" /\ el.type = "hidden"

\* the hidden inputs inside a chip
HiddenFields(chip) == SelectSeq(chip.children, IsHiddenInput)

\* a string of white space only (the empty string included)
Blank(str) == \A i \in 1..Len(str) : str[i] \in {" ", "\t", "\n", "\r"}

\* the last event was an Enter key press on w with a value that is not blank
Committed(w) ==
    /\ lastEvent.type = "keypress"
    /\ lastEvent.target = w
    /\ lastEvent.key = "Enter"
    /\ ~Blank(lastEvent.value)

\* C1: the tag-list region of a constructed widget is hidden (display 'none')
\* if and only if it holds no chip.
C1_HiddenIffEmpty ==
    \A w \in Widgets : pc[w] = "ready" => (display[w] = "none" <=> tags[w] = << >>)

\* C2: over a source input named "tags", a tag committed with Enter gets a
\* hidden field named "tags[]" whose value is the tag text.
C2_EnterNamesTagsArr ==
    \A w \in Widgets :
        (Committed(w) /\ source[w].name = sTags) =>
            /\ tags[w] # << >>
            /\ HiddenFields(Last(tags[w]))[1].name = sTagsArr
            /\ HiddenFields(Last(tags[w]))[1].value = Last(tags[w]).textContent

\* C3: over a source input whose name already ends in "[]" ("tags[]"), a
\* committed tag's hidden field keeps that name: the suffix is never doubled.
C3_SuffixNotDoubled ==
    \A w \in Widgets :
        (Committed(w) /\ source[w].name = sTagsArr) =>
            /\ tags[w] # << >>
            /\ HiddenFields(Last(tags[w]))[1].name = sTagsArr

\* the text the claim expects a commit of val to show
ExpectedText(w, val) == IF settings[w].trimInput THEN trim(val) ELSE val

\* C4: Enter on a value that is not blank appends exactly one chip whose text
\* and hidden value are that value (trimmed when trimInput is set, untouched
\* when it is not), and the tag-list region is visible afterwards.
C4_EnterAppendsExactText ==
    [][\A w \in Widgets :
          (KeyPress(w, "Enter") /\ ~Blank(value[w])) =>
              /\ Len(tags'[w]) = Len(tags[w]) + 1
              /\ SubSeq(tags'[w], 1, Len(tags[w])) = tags[w]
              /\ Last(tags'[w]).textContent = ExpectedText(w, value[w])
              /\ HiddenFields(Last(tags'[w]))[1].value = ExpectedText(w, value[w])
              /\ display'[w] = ""]_vars

\* C5: a key press with Enter on an empty or white-space-only value, and a key
\* press with any other key, leave the chips and the region's display unchanged.
C5_NoCommitNoChange ==
    [][\A w \in Widgets : \A key \in Keys :
          (KeyPress(w, key) /\ (key # "Enter" \/ Blank(value[w]))) =>
              (tags' = tags /\ display' = display)]_vars

C5_Witness ==
    \E w \in Widgets :
        /\ lastEvent = Event("keypress", w, "Enter", sSpace, FALSE)
        /\ tags[w] # << >>
        /\ display[w] = ""

C7_RemoveRefocuses ==
    [][\A w \in Widgets : \A i \in 1..MaxChips :
          Remove(w, i) =>
              /\ tags'[w] = SubSeq(tags[w], 1, i - 1) \o SubSeq(tags[w], i + 1, Len(tags[w]))
              /\ focused' = w]_vars

Dims == {"width", "height", "maxHeight"}

RECURSIVE OnlyDigits(_)
OnlyDigits(str) ==
    str = << >> \/ (Head(str) \in {"0", "1", "2", "3", "4", "5", "6", "7", "8", "9"}
                    /\ OnlyDigits(Tail(str)))

DecimalForm(str) ==
    LET unsigned == IF str # << >> /\ Head(str) = "-" THEN Tail(str) ELSE str
        dots == {i \in 1..Len(unsigned) : unsigned[i] = "."}
    IN  \/ unsigned # << >> /\ OnlyDigits(unsigned)
        \/ \E i \in dots :
              /\ i > 1
              /\ i < Len(unsigned)
              /\ OnlyDigits(SubSeq(unsigned, 1, i - 1))
              /\ OnlyDigits(SubSeq(unsigned, i + 1, Len(unsigned)))

C9_AlwaysTrue ==
    \A w \in Widgets : (pc[w] = "ready" /\ options[w].debug) => dataFocus[w] = "true"

\* C9, amended: with debug enabled, data-focus is never 'false': it is absent
\* from construction until a focus or blur listener of the widget first runs,
\* and 'true' from then on.
C9_NeverFalse ==
    /\ [](\A w \in Widgets : options[w].debug => dataFocus[w] # "false")
    /\ [][\A w \in Widgets :
             (options[w].debug /\ listening[w]) =>
                 ((dataFocus[w] = "true" \/ (focused = w) # (focused' = w)) =>
                      dataFocus'[w] = "true")]_vars

C9_Witness ==
    \E w \in Widgets :
        /\ options[w].debug
        /\ lastEvent.type = "blur"
        /\ lastEvent.target = w
        /\ pointer # w
        /\ dataFocus[w] = "true"

\* C10: a commit, an addTag call, a remove, a mouseenter or a mouseleave on one
\* widget leaves every other widget's chips (hidden fields included), display,
\* hover flag and stored name unchanged.
C10_Independent ==
    [][\A w \in Widgets :
          (/\ lastEvent'.target # w
           /\ lastEvent'.type \in {"keypress", "addTag", "click", "mouseenter", "mouseleave"}) =>
              /\ tags'[w] = tags[w]
              /\ display'[w] = display[w]
              /\ mouseEnter'[w] = mouseEnter[w]
              /\ name'[w] = name[w]]_vars

C10_Witness ==
    /\ lastEvent.type = "click"
    /\ lastEvent.target = "w1"
    /\ tags["w1"] = << >>
    /\ display["w1"] = "none"
    /\ ~mouseEnter["w1"]
    /\ Len(tags["w2"]) = MaxChips
    /\ display["w2"] = ""
    /\ mouseEnter["w2"]


\* the sequence seq without its i-th element
Without(seq, i) == SubSeq(seq, 1, i - 1) \o SubSeq(seq, i + 1, Len(seq))

\* the step is a commit on w: an addTag call, or Enter on a value that is not blank
CommitStep(w) ==
    /\ lastEvent'.target = w
    /\ \/ lastEvent'.type = "addTag"
       \/ /\ lastEvent'.type = "keypress"
          /\ lastEvent'.key = "Enter"
          /\ ~Blank(lastEvent'.value)

C12_ClearedAfterCommit ==
    /\ [](\A w \in Widgets : Committed(w) => value[w] = << >>)
    /\ [][\A w \in Widgets :
             (/\ Committed(w)
              /\ lastEvent'.type = "keypress"
              /\ lastEvent'.target = w
              /\ lastEvent'.key = "Enter") => tags' = tags]_vars

C12_Witness ==
    \E w \in Widgets :
        /\ Committed(w)
        /\ lastEvent.value = sPadA
        /\ value[w] = << >>
        /\ tags[w] # << >>


\* the positions of a step in a constructor's log
At(w, step) == {i \in 1..Len(log[w]) : log[w][i].step = step}

\* C13: the attribute copy and the replacement of the source input come before
\* the listeners are attached, and a callback that was supplied is called
\* exactly once, with the text field of the wrapper, after the replacement.
C13_ConstructionOrder ==
    \A w \in Widgets : HasField(w) =>
        /\ \A a \in At(w, "addEvents") :
              /\ \E c \in At(w, "copy") : c < a
              /\ \E r \in At(w, "replace") : r < a
        /\ listening[w] => At(w, "addEvents") # {}
        /\ callback[w] =>
              /\ Cardinality(At(w, "callback")) = 1
              /\ \A c \in At(w, "callback") :
                    /\ log[w][c].arg = "newInput"
                    /\ \E r \in At(w, "replace") : r < c


\* C14: when the element an internal query expects is absent, the operation
\* does nothing and throws nothing: no constructor call, addTag call or remove
\* activation ends in an uncaught error.
C14_NoUncaughtError ==
    lastEvent.type \in {"construct", "addTag", "click"} => ~lastEvent.threw

\* C15: with debug off, whenever the text field does not have the focus and
\* the pointer is not over the wrapper, data-focus is not 'true'.
C15_ActiveOnlyWhileFocusedOrHovered ==
    \A w \in Widgets :
        (HasField(w) /\ ~options[w].debug /\ focused # w /\ pointer # w) =>
            dataFocus[w] # "true"


\* the values of the hidden fields of the tag-list region of w, in document order
RECURSIVE HiddenValues(_)
HiddenValues(chips) ==
    IF chips = << >> THEN << >>
    ELSE [i \in 1..Len(HiddenFields(Head(chips))) |-> HiddenFields(Head(chips))[i].value]
         \o HiddenValues(Tail(chips))

\* C16: every chip holds exactly one hidden field, whose value is the chip's
\* text as committed; the region holds no other hidden field, so none is left
\* for a removed chip; and the value of a hidden field never changes: a step
\* leaves the values as they were, adds one at the end, or takes one out.
C16_OneHiddenFieldPerChip ==
    /\ [](\A w \in Widgets :
             /\ \A i \in 1..Len(tags[w]) :
                   /\ Len(HiddenFields(tags[w][i])) = 1
                   /\ HiddenFields(tags[w][i])[1].value = tags[w][i].textContent
             /\ Len(HiddenValues(tags[w])) = Len(tags[w]))
    /\ [][\A w \in Widgets :
             \/ HiddenValues(tags'[w]) = HiddenValues(tags[w])
             \/ \E i \in 1..Len(HiddenValues(tags[w])) :
                   HiddenValues(tags'[w]) = Without(HiddenValues(tags[w]), i)
             \/ /\ Len(HiddenValues(tags'[w])) = Len(HiddenValues(tags[w])) + 1
                /\ SubSeq(HiddenValues(tags'[w]), 1, Len(HiddenValues(tags[w])))
                      = HiddenValues(tags[w])
                /\ Last(HiddenValues(tags'[w])) = Last(tags'[w]).textContent]_vars

C16_Witness ==
    \E w \in Widgets :
        /\ lastEvent.type = "click"
        /\ lastEvent.target = w
        /\ Len(tags[w]) = 1
        /\ tags[w][1].textContent = sPadA
        /\ HiddenValues(tags[w]) = <<sPadA>>

====
